---- MODULE Spec2Model ----
(***************************************************************************)
(* A model of logsdb: the three ingestion commands (apache-access,         *)
(* authfail, maillog), the windowed reports and the daily digest.          *)
(*                                                                         *)
(* Text is modelled as sequences of tokens.  An auth-failure line is the   *)
(* sequence of its words, i.e. the line split at every single space, so    *)
(* that two consecutive spaces show as an empty word "".  An access-log    *)
(* line is a sequence of tokens among which "|", "[", "]", "," and "q"     *)
(* (the double quote) are the characters the parser looks at.              *)
(***************************************************************************)
EXTENDS Integers, Sequences, FiniteSets, TLC

VARIABLES
    kind,       \* which command runs: "access", "authfail", "mail", or the spec's tag
    stdin,      \* the lines of standard input of a line-based run
    pos,        \* number of lines read so far by the run
    line,       \* the local variable `line` of the run
    store,      \* the table of the run's events, in insertion (id) order
    stderr,     \* what the run wrote to the error channel
    status,     \* "running", "exit0" or "exit1"
    contacts,   \* table inbox_contacts, in id order
    emails,     \* table inbox (with its inbox_tocc rows), in id order
    proc,       \* the mail-ingestion process: position, message and locals
    now,        \* the clock
    report,     \* the rows of the last daily report
    tags,       \* dailyreport: the accumulated tag set
    reports,    \* dailyreport: the list of fragments
    subject,    \* dailyreport: the subject, as a sequence of pieces
    body,       \* dailyreport: the body, as a sequence of pieces
    dpc,        \* dailyreport: position in the composition
    features,   \* dailyreport: the section [features] of the configuration
    queried     \* dailyreport: the aggregated reports asked of the database

vars == <<kind, stdin, pos, line, store, stderr, status, contacts, emails,
          proc, now, report, tags, reports, subject, body, dpc, features, queried>>

lineVars == <<stdin, pos, line, store, stderr, status>>
mailVars == <<contacts, emails, proc>>
digestVars == <<tags, reports, subject, body, dpc, features, queried>>

----------------------------------------------------------------------------
(* Bounds *)

MaxInput == 2       \* lines on standard input of one run
MaxMails == 2       \* messages handled one after the other
MaxEvents == 4      \* rows in a table the reports read
MaxClock == 1       \* ticks of the clock during the ingestion runs

(* The report window, timedelta(days=1), in ticks of the model's clock *)
Day == 1

----------------------------------------------------------------------------
(* Small helpers on sequences *)

Range(s) == {s[i] : i \in 1..Len(s)}

RECURSIVE Concat(_)
Concat(ss) == IF ss = <<>> THEN <<>> ELSE Head(ss) \o Concat(Tail(ss))

(* `line = None` before the first readline *)
NoLine == <<"None">>

----------------------------------------------------------------------------
(* core.py *)

(* Database.add: session.add(obj); session.commit().  The row is durable  *)
(* as soon as add returns.                                                 *)
DatabaseAddLost(tbl, obj) == tbl

DatabaseAdd(tbl, obj) == Append(tbl, obj)

(* one_day_ago *)
one_day_ago(t) == t - Day

----------------------------------------------------------------------------
(* authfail.py: the two patterns of MSG_REGEXEN, matched with fullmatch *)

Methods == {"password", "keyboard-interactive/pam", "none"}
Digits == {"1", "3", "22"}                   \* words matching \d+
SshdWords == {"sshd[1]:", "sshd[22]:"}         \* sshd\[\d+\]:
RepeatLen == 5                               \* words of " message repeated N times: ["

IsRepeat(l, at) ==
    /\ Len(l) >= at + RepeatLen - 1
    /\ l[at] = "message" /\ l[at + 1] = "repeated" /\ l[at + 2] \in Digits
    /\ l[at + 3] = "times:" /\ l[at + 4] = "["

(* (?P<timestamp>\S+) \S+ sshd\[\d+\]:(?: message repeated \d+ times: \[)? *)
HeadMatches(l, rep) ==
    /\ Len(l) >= 3
    /\ l[1] # "" /\ l[2] # "" /\ l[3] \in SshdWords
    /\ rep => IsRepeat(l, 4)

HeadLen(rep) == 3 + (IF rep THEN RepeatLen ELSE 0)

(* \s* at the end of the line *)
OnlySpaceAfter(l, last) == \A i \in (last + 1)..Len(l) : l[i] = ""

(* Pattern 1 with the optional groups taken (rep, inv) or not and a       *)
(* username of k words.                                                   *)
Shape1(l, rep, inv, k) ==
    LET h == HeadLen(rep)
        u == h + 3 + (IF inv THEN 2 ELSE 0)      \* last word before the username
        e == u + k                               \* last word of the username
    IN  /\ k >= 1
        /\ HeadMatches(l, rep)
        /\ Len(l) >= e + 5
        /\ l[h + 1] = "Failed" /\ l[h + 2] \in Methods /\ l[h + 3] = "for"
        /\ inv => (l[h + 4] = "invalid" /\ l[h + 5] = "user")
        /\ SubSeq(l, u + 1, e) # <<"">>          \* .+? takes at least one character
        /\ l[e + 1] = "from" /\ l[e + 2] # "" /\ l[e + 3] = "port"
        /\ l[e + 4] \in Digits /\ l[e + 5] \in {"ssh2", "ssh2]"}
        /\ OnlySpaceAfter(l, e + 5)

(* Pattern 2, likewise; .*? may be empty *)
Shape2(l, rep, inv, k) ==
    LET h == HeadLen(rep)
        u == h + 2
        e == u + k
    IN  /\ k >= 1 /\ ~inv
        /\ HeadMatches(l, rep)
        /\ Len(l) >= e + 4
        /\ l[h + 1] = "Invalid" /\ l[h + 2] = "user"
        /\ l[e + 1] = "from" /\ l[e + 2] # "" /\ l[e + 3] = "port"
        /\ l[e + 4] \in Digits
        /\ OnlySpaceAfter(l, e + 4)

Shape(n, l, rep, inv, k) == IF n = 1 THEN Shape1(l, rep, inv, k) ELSE Shape2(l, rep, inv, k)

UserStart(n, rep, inv) ==
    HeadLen(rep) + (IF n = 1 THEN 3 + (IF inv THEN 2 ELSE 0) ELSE 2)

(* The alternatives of one pattern in the order the backtracking matcher  *)
(* tries them: an optional group is tried present first (greedy), the     *)
(* lazy username shortest first.                                           *)
Tries(l) ==
    LET opts == <<<<TRUE, TRUE>>, <<TRUE, FALSE>>, <<FALSE, TRUE>>, <<FALSE, FALSE>>>>
    IN  Concat([i \in 1..4 |->
                  [k \in 1..Len(l) |-> [rep |-> opts[i][1], inv |-> opts[i][2], k |-> k]]])

RECURSIVE FirstTry(_, _, _)
FirstTry(n, l, ts) ==
    IF ts = <<>> THEN [matched |-> FALSE]
    ELSE LET t == Head(ts)
         IN  IF Shape(n, l, t.rep, t.inv, t.k)
             THEN LET u == UserStart(n, t.rep, t.inv)
                  IN  [matched |-> TRUE,
                       timestamp |-> l[1],
                       username |-> SubSeq(l, u + 1, u + t.k),
                       src_addr |-> l[u + t.k + 2]]
             ELSE FirstTry(n, l, Tail(ts))

(* rgx.fullmatch(line) for rgx = MSG_REGEXEN[n] *)
fullmatch(n, l) == FirstTry(n, l, Tries(l))

(* datetime.fromisoformat on the words the inputs use: one tick is a day *)
IsoWords == <<"2024-01-01T00:00", "2024-01-02T00:00", "2024-01-03T00:00", "2024-01-04T00:00">>

IsIso(w) == \E i \in 1..Len(IsoWords) : IsoWords[i] = w

fromisoformat(w) == (CHOOSE i \in 1..Len(IsoWords) : IsoWords[i] = w) - 1

(* the column type INET *)
InetOrder == <<"1.2.3.4", "5.6.7.8", "10.0.0.1">>      \* ascending, as inet compares
InetWords == {InetOrder[i] : i \in 1..Len(InetOrder)}

(* One pass of the loop body of authfail.process_input over a line: the   *)
(* patterns in order, the first that matches builds the event.            *)
AuthfailParse(l) ==
    LET m1 == fullmatch(1, l)
        m2 == fullmatch(2, l)
        m == IF m1.matched THEN m1 ELSE m2
    IN  IF ~m.matched
        THEN [ok |-> FALSE, error_type |-> "ValueError", error |-> "Could not parse logfile entry"]
        ELSE IF ~IsIso(m.timestamp)
        THEN [ok |-> FALSE, error_type |-> "ValueError", error |-> "Invalid isoformat string"]
        ELSE [ok |-> TRUE,
              event |-> [timestamp |-> fromisoformat(m.timestamp),
                         username |-> m.username,
                         src_addr |-> m.src_addr]]

(* The record json.dumps writes in the except clause: one line *)
DiagnosticNoLine(l, etype, err) ==
    [fmt |-> "json", time |-> now, line |-> NoLine,
     traceback |-> "traceback", error_type |-> etype, error |-> err]

Diagnostic(l, etype, err) ==
    [fmt |-> "json", time |-> now, line |-> l,
     traceback |-> "traceback", error_type |-> etype, error |-> err]

(* The outcomes of a commit: done, or the server fails *)
DbOutcomes == {"ok", "OperationalError"}

(* except Exception: print(json.dumps(...), file=sys.stderr); sys.exit(1) *)
Abort(l, etype, err) ==
    /\ stderr' = Append(stderr, Diagnostic(l, etype, err))
    /\ status' = "exit1"

(* authfail.process_input: one iteration of the loop over stdin *)
AuthfailLine ==
    /\ kind = "authfail" /\ status = "running" /\ pos < Len(stdin)
    /\ LET l == stdin[pos + 1]
           r == AuthfailParse(l)
       IN  /\ pos' = pos + 1
           /\ line' = l
           /\ IF ~r.ok
              THEN Abort(l, r.error_type, r.error) /\ UNCHANGED store
              ELSE IF r.event.src_addr \notin InetWords
              THEN Abort(l, "DataError", "invalid input syntax for type inet")
                   /\ UNCHANGED store
              ELSE \E o \in DbOutcomes :
                     IF o = "ok"
                     THEN store' = DatabaseAdd(store, r.event)
                          /\ UNCHANGED <<stderr, status>>
                     ELSE Abort(l, o, "server closed the connection") /\ UNCHANGED store
    /\ UNCHANGED <<kind, stdin, now, report>> /\ UNCHANGED mailVars /\ UNCHANGED digestVars

(* readline returned "": the loop ends and the command returns *)
AuthfailEof ==
    /\ kind = "authfail" /\ status = "running" /\ pos = Len(stdin)
    /\ status' = "exit0"
    /\ UNCHANGED <<kind, stdin, pos, line, store, stderr, now, report>>
    /\ UNCHANGED mailVars /\ UNCHANGED digestVars

(* The lines the auth-failure runs are fed *)
AuthHead(ts) == <<ts, "host", "sshd[1]:">>
AuthRepeat == <<"message", "repeated", "3", "times:", "[">>
FailedFor(method, user, addr, last) ==
    <<"Failed", method, "for">> \o user \o <<"from", addr, "port", "22", last>>
InvalidUser(user, addr) == <<"Invalid", "user">> \o user \o <<"from", addr, "port", "22">>

AuthfailLines ==
    { AuthHead(IsoWords[1]) \o FailedFor("password", <<"bob">>, "1.2.3.4", "ssh2"),
      AuthHead(IsoWords[2]) \o FailedFor("none", <<"invalid", "user", "bob">>, "5.6.7.8", "ssh2"),
      AuthHead(IsoWords[2]) \o FailedFor("password", <<"invalid", "user", "">>, "1.2.3.4", "ssh2"),
      AuthHead(IsoWords[3]) \o FailedFor("password", <<"bob", "from", "x">>, "1.2.3.4", "ssh2") \o <<"">>,
      AuthHead(IsoWords[1]) \o AuthRepeat
          \o FailedFor("keyboard-interactive/pam", <<"invalid", "user", "al">>, "5.6.7.8", "ssh2]"),
      AuthHead(IsoWords[4]) \o InvalidUser(<<"eve">>, "5.6.7.8"),
      AuthHead(IsoWords[1]) \o InvalidUser(<<"">>, "1.2.3.4"),
      AuthHead(IsoWords[1]) \o FailedFor("password", <<"">>, "1.2.3.4", "ssh2"),
      AuthHead(IsoWords[1]) \o FailedFor("publickey", <<"bob">>, "1.2.3.4", "ssh2"),
      AuthHead(IsoWords[1]) \o InvalidUser(<<"eve">>, "5.6.7.8") \o <<"extra">>,
      <<"x">> \o AuthHead(IsoWords[1]) \o InvalidUser(<<"eve">>, "5.6.7.8"),
      AuthHead("Jan") \o FailedFor("password", <<"bob">>, "1.2.3.4", "ssh2"),
      AuthHead(IsoWords[1]) \o InvalidUser(<<"eve">>, "localhost") }

----------------------------------------------------------------------------
(* apache_access.py *)

NumFields == 9      \* the names unpacked from line.split("|", 8)
NumStrs == 7        \* the names unpacked from the array literal

FirstPipe(s) == CHOOSE i \in 1..Len(s) : s[i] = "|" /\ \A j \in 1..(i - 1) : s[j] # "|"

(* str.split("|", maxsplit) *)
RECURSIVE splitUnlimited(_, _)
splitUnlimited(s, maxsplit) ==
    IF "|" \notin Range(s) THEN <<s>>
    ELSE <<SubSeq(s, 1, FirstPipe(s) - 1)>>
         \o splitUnlimited(SubSeq(s, FirstPipe(s) + 1, Len(s)), maxsplit)

RECURSIVE split(_, _)
split(s, maxsplit) ==
    IF maxsplit = 0 \/ "|" \notin Range(s) THEN <<s>>
    ELSE <<SubSeq(s, 1, FirstPipe(s) - 1)>>
         \o split(SubSeq(s, FirstPipe(s) + 1, Len(s)), maxsplit - 1)

(* The items between the brackets: string literals q...q separated by ","  *)
RECURSIVE LiteralItems(_)
LiteralItems(s) ==
    IF s = <<>> THEN [ok |-> TRUE, val |-> <<>>]
    ELSE IF s[1] # "q" \/ "q" \notin Range(Tail(s)) THEN [ok |-> FALSE]
    ELSE LET t == Tail(s)
             j == CHOOSE i \in 1..Len(t) : t[i] = "q" /\ \A k \in 1..(i - 1) : t[k] # "q"
             str == SubSeq(t, 1, j - 1)
             rest == SubSeq(t, j + 1, Len(t))
         IN  IF rest = <<>> THEN [ok |-> TRUE, val |-> <<str>>]
             ELSE IF rest[1] # "," THEN [ok |-> FALSE]
             ELSE LET more == LiteralItems(Tail(rest))
                  IN  IF more.ok THEN [ok |-> TRUE, val |-> <<str>> \o more.val]
                      ELSE [ok |-> FALSE]

(* ast.literal_eval on the texts the inputs use: a list display of strings *)
literal_eval(s) ==
    IF Len(s) < 2 \/ s[1] # "[" \/ s[Len(s)] # "]" THEN [ok |-> FALSE]
    ELSE LiteralItems(SubSeq(s, 2, Len(s) - 1))

(* reencode: s.encode("iso-8859-1").decode("utf-8"), token by token.  The *)
(* token <C3><A9> is the two characters the bytes of U+00E9 were read as, *)
(* <FF> is a character whose byte is no UTF-8.                             *)
Decodable(s) == \A i \in 1..Len(s) : s[i] # "<FF>"

reencode(s) == [i \in 1..Len(s) |-> IF s[i] = "<C3><A9>" THEN "<U+00E9>" ELSE s[i]]

(* int() on the words the inputs use *)
IntOf == ("5" :> 5) @@ ("7" :> 7) @@ ("9" :> 9) @@ ("80" :> 80) @@ ("200" :> 200)

IsInt(f) == Len(f) = 1 /\ f[1] \in DOMAIN IntOf

int(f) == IntOf[f[1]]

(* The body of the loop of apache_access.main up to the call of           *)
(* insert_entry: the keyword arguments, or the exception raised.          *)
AccessParse(l) ==
    LET f == split(l, NumFields - 1)
    IN  IF Len(f) # NumFields
        THEN [ok |-> FALSE, error_type |-> "ValueError", error |-> "not enough values to unpack"]
        ELSE
        LET lit == literal_eval(f[NumFields])
        IN  IF ~lit.ok
            THEN [ok |-> FALSE, error_type |-> "SyntaxError", error |-> "invalid syntax"]
            ELSE IF \E i \in 1..Len(lit.val) : i <= NumStrs + 1 /\ ~Decodable(lit.val[i])
            THEN [ok |-> FALSE, error_type |-> "UnicodeDecodeError", error |-> "invalid start byte"]
            ELSE IF Len(lit.val) # NumStrs
            THEN [ok |-> FALSE, error_type |-> "ValueError", error |-> "wrong number of values to unpack"]
            ELSE IF \E i \in {3, 5, 6, 7, 8} : ~IsInt(f[i])
            THEN [ok |-> FALSE, error_type |-> "ValueError", error |-> "invalid literal for int()"]
            ELSE [ok |-> TRUE,
                  args |-> [timestamp |-> f[1], host |-> f[2], port |-> int(f[3]),
                            src_addr |-> f[4],
                            authuser |-> reencode(lit.val[1]),
                            bytesin |-> int(f[5]), bytesout |-> int(f[6]),
                            microsecs |-> int(f[7]), status |-> int(f[8]),
                            reqline |-> reencode(lit.val[2]),
                            method |-> reencode(lit.val[3]),
                            path |-> reencode(lit.val[4]),
                            protocol |-> reencode(lit.val[5]),
                            referer |-> reencode(lit.val[6]),
                            user_agent |-> reencode(lit.val[7])]]

(* What the server accepts for the columns timestamp and src_addr *)
AccessRowValid(a) ==
    /\ Len(a.timestamp) = 1 /\ IsIso(a.timestamp[1])
    /\ Len(a.src_addr) = 1 /\ a.src_addr[1] \in InetWords

(* The row the server stores for the values of insert_entry *)
AccessRow(a) ==
    [a EXCEPT !.timestamp = fromisoformat(a.timestamp[1]), !.src_addr = a.src_addr[1]]

(* SchemaConn: conn.execute of one INSERT, durable when it returns *)
SchemaConnExecute(tbl, row) == Append(tbl, row)

(* ApacheAccess.insert_entry *)
insert_entry(tbl, a) == SchemaConnExecute(tbl, AccessRow(a))

(* apache_access.main: `with ApacheAccess(connect()) as db` *)
AccessConnect ==
    /\ kind = "access" /\ status = "connecting"
    /\ \E o \in DbOutcomes :
         IF o = "ok"
         THEN status' = "running" /\ UNCHANGED stderr
         ELSE Abort(line, o, "could not connect to server")
    /\ UNCHANGED <<kind, stdin, pos, line, store, now, report>>
    /\ UNCHANGED mailVars /\ UNCHANGED digestVars

(* apache_access.main: one iteration of the loop over stdin *)
AccessLine ==
    /\ kind = "access" /\ status = "running" /\ pos < Len(stdin)
    /\ LET l == stdin[pos + 1]
           r == AccessParse(l)
       IN  /\ pos' = pos + 1
           /\ line' = l
           /\ IF ~r.ok
              THEN Abort(l, r.error_type, r.error) /\ UNCHANGED store
              ELSE IF ~AccessRowValid(r.args)
              THEN Abort(l, "DataError", "invalid input syntax") /\ UNCHANGED store
              ELSE \E o \in DbOutcomes :
                     IF o = "ok"
                     THEN store' = insert_entry(store, r.args)
                          /\ UNCHANGED <<stderr, status>>
                     ELSE Abort(l, o, "server closed the connection") /\ UNCHANGED store
    /\ UNCHANGED <<kind, stdin, now, report>> /\ UNCHANGED mailVars /\ UNCHANGED digestVars

AccessEof ==
    /\ kind = "access" /\ status = "running" /\ pos = Len(stdin)
    /\ status' = "exit0"
    /\ UNCHANGED <<kind, stdin, pos, line, store, stderr, now, report>>
    /\ UNCHANGED mailVars /\ UNCHANGED digestVars

(* The lines the access-log runs are fed *)
Quoted(str) == <<"q">> \o str \o <<"q">>

RECURSIVE CommaJoin(_)
CommaJoin(ss) ==
    IF ss = <<>> THEN <<>>
    ELSE IF Len(ss) = 1 THEN Quoted(ss[1])
    ELSE Quoted(ss[1]) \o <<",">> \o CommaJoin(Tail(ss))

ArrayLiteral(ss) == <<"[">> \o CommaJoin(ss) \o <<"]">>

Leading(ts, port) ==
    <<ts, "|", "example.org", "|", port, "|", "1.2.3.4", "|", "5", "|", "7", "|", "9", "|", "200", "|">>

Strs(req, agent) == <<<<"-">>, req, <<"GET">>, <<"/">>, <<"HTTP/1.1">>, <<"-">>, agent>>

AccessLines ==
    { Leading(IsoWords[1], "80") \o ArrayLiteral(Strs(<<"GET / HTTP/1.1">>, <<"curl">>)),
      Leading(IsoWords[2], "80") \o ArrayLiteral(Strs(<<"GET /a", "|", "b HTTP/1.1">>, <<"curl">>)),
      Leading(IsoWords[2], "80") \o ArrayLiteral(Strs(<<"GET / HTTP/1.1">>, <<"<C3><A9>">>)),
      Leading(IsoWords[1], "80") \o ArrayLiteral(Strs(<<"GET / HTTP/1.1">>, <<"<FF>">>)),
      SubSeq(Leading(IsoWords[1], "80"), 3, 16)
          \o ArrayLiteral(Strs(<<"GET / HTTP/1.1">>, <<"curl">>)),
      SubSeq(Leading(IsoWords[1], "80"), 3, 16)
          \o ArrayLiteral(Strs(<<"GET /a", "|", "b HTTP/1.1">>, <<"curl">>)),
      <<"extra", "|">> \o Leading(IsoWords[1], "80")
          \o ArrayLiteral(Strs(<<"GET / HTTP/1.1">>, <<"curl">>)),
      Leading(IsoWords[1], "80") \o ArrayLiteral(Strs(<<"GET / HTTP/1.1">>, <<"curl">>))
          \o <<"|", "tail">>,
      Leading(IsoWords[1], "http") \o ArrayLiteral(Strs(<<"GET / HTTP/1.1">>, <<"curl">>)),
      Leading(IsoWords[1], "80") \o ArrayLiteral(Tail(Strs(<<"GET / HTTP/1.1">>, <<"curl">>))),
      Leading("yesterday", "80") \o ArrayLiteral(Strs(<<"GET / HTTP/1.1">>, <<"curl">>)),
      <<IsoWords[1], "|", "example.org">> }

----------------------------------------------------------------------------
(* maillog.py *)

Str2048 == 2048     \* subject[:2048]

(* A header holding addresses, and a header the message does not have *)
Hdr(as) == [present |-> TRUE, addresses |-> as]
NoHdr == [present |-> FALSE, addresses |-> <<>>]

Addr(name, spec) == [display_name |-> name, addr_spec |-> spec]

(* A Contact row as inserted: the id is the row's index in the table *)
Contact(a) == [realname |-> a.display_name, email_address |-> a.addr_spec]

(* sa.select(Contact).filter(realname == ...).filter(email_address == ...): *)
(* the ids of the rows found                                               *)
SelectContactByAddress(tbl, a) ==
    {i \in 1..Len(tbl) : tbl[i].email_address = a.addr_spec}

SelectContact(tbl, a) ==
    {i \in 1..Len(tbl) : tbl[i].realname = a.display_name
                         /\ tbl[i].email_address = a.addr_spec}

(* UniqueConstraint("realname", "email_address") of inbox_contacts *)
ContactUniqueUnchecked(tbl, c) == TRUE

ContactUnique(tbl, c) ==
    \A i \in 1..Len(tbl) :
        ~(tbl[i].realname = c.realname /\ tbl[i].email_address = c.email_address)

(* UniqueConstraint("msg_id", "contact_id") of inbox_tocc: the rows of one *)
(* message name each contact once                                          *)
ToccUnique(tocc) == \A i, j \in 1..Len(tocc) : tocc[i] = tocc[j] => i = j

(* process_input: recipients += msg[fieldname].addresses for To, CC *)
Recipients(m) ==
    (IF m.to.present THEN m.to.addresses ELSE <<>>)
    \o (IF m.cc.present THEN m.cc.addresses ELSE <<>>)

(* process_input: the arguments of insert_entry, or the exception their   *)
(* evaluation raises                                                      *)
MailArgsDateUnchecked(m) ==
    IF ~m.from.present
    THEN [ok |-> FALSE, error_type |-> "AttributeError"]
    ELSE IF m.from.addresses = <<>>
    THEN [ok |-> FALSE, error_type |-> "IndexError"]
    ELSE [ok |-> TRUE,
          subject |-> IF m.subject.present /\ m.subject.len > 0
                      THEN m.subject
                      ELSE [present |-> TRUE, text |-> "NO SUBJECT", len |-> 10],
          sender |-> m.from.addresses[1],
          date |-> m.date.datetime,
          recipients |-> Recipients(m),
          size |-> m.size]

MailArgs(m) ==
    IF ~m.from.present
    THEN [ok |-> FALSE, error_type |-> "AttributeError"]
    ELSE IF m.from.addresses = <<>>
    THEN [ok |-> FALSE, error_type |-> "IndexError"]
    ELSE IF ~m.date.present
    THEN [ok |-> FALSE, error_type |-> "AttributeError"]
    ELSE [ok |-> TRUE,
          subject |-> IF m.subject.present /\ m.subject.len > 0
                      THEN m.subject
                      ELSE [present |-> TRUE, text |-> "NO SUBJECT", len |-> 10],
          sender |-> m.from.addresses[1],
          date |-> m.date.datetime,
          recipients |-> Recipients(m),
          size |-> m.size]

(* subject[:2048] *)
Truncate(sub) == [text |-> sub.text, len |-> IF sub.len > Str2048 THEN Str2048 ELSE sub.len]

(* insert_entry: `if c.id not in tocc_ids: tocc.append(c); tocc_ids.add(c.id)` *)
AddRecipientNoDedup(tocc, c) == Append(tocc, c)

AddRecipient(tocc, c) == IF c \in Range(tocc) THEN tocc ELSE Append(tocc, c)

IdleProc ==
    [pc |-> "idle", n |-> 0, status |-> "none", stderr |-> <<>>,
     msg |-> [size |-> 0], args |-> [ok |-> FALSE], i |-> 0, tocc |-> <<>>, sender |-> 0, timestamp |-> 0]

(* except Exception: print("\n<time>: Error processing e-mail"); raise.   *)
(* The exception leaves the program, which prints its traceback and exits *)
(* with status 1.                                                          *)
MailDiagnostic(etype) ==
    << [fmt |-> "text", text |-> ""],
       [fmt |-> "text", text |-> "Error processing e-mail"],
       [fmt |-> "text", text |-> "Traceback", error_type |-> etype] >>

(* process_input up to the call of insert_entry, for a message m on stdin *)
MailRead(p, m) ==
    /\ kind = "mail" /\ proc[p].pc = "idle" /\ proc[p].n < MaxMails
    /\ LET a == MailArgs(m)
       IN  IF ~a.ok
           THEN proc' = [proc EXCEPT ![p] = [IdleProc EXCEPT !.n = proc[p].n + 1,
                                                !.msg = m, !.status = "exit1",
                                                !.stderr = MailDiagnostic(a.error_type)]]
           ELSE proc' = [proc EXCEPT ![p] = [IdleProc EXCEPT !.pc = "lookup", !.n = proc[p].n,
                                                !.msg = m, !.status = "running",
                                                !.args = a, !.i = 1, !.timestamp = now]]
    /\ UNCHANGED <<kind, contacts, emails, now, report>>
    /\ UNCHANGED lineVars /\ UNCHANGED digestVars

(* The address get_contact is called with next: the recipients in order,  *)
(* then the sender                                                        *)
InRecipients(q) == q.i <= Len(q.args.recipients)
Target(q) == IF InRecipients(q) THEN q.args.recipients[q.i] ELSE q.args.sender

(* The caller of get_contact goes on with the contact c: the loop of      *)
(* insert_entry, or the construction of the EMail                         *)
Got(q, c) ==
    IF InRecipients(q)
    THEN [q EXCEPT !.tocc = AddRecipient(@, c), !.i = @ + 1,
                   !.timestamp = IF q.i = Len(q.args.recipients) THEN now ELSE @]
    ELSE [q EXCEPT !.pc = "email", !.sender = c]

Failed(q, etype) ==
    [q EXCEPT !.pc = "idle", !.n = @ + 1, !.status = "exit1",
              !.stderr = MailDiagnostic(etype)]

(* get_contact: the SELECT *)
GetContactSelect(p) ==
    /\ kind = "mail" /\ proc[p].pc = "lookup"
    /\ LET q == proc[p]
           found == SelectContact(contacts, Target(q))
       IN  \E o \in DbOutcomes :
             IF o # "ok" THEN proc' = [proc EXCEPT ![p] = Failed(q, o)]
             ELSE IF found = {} THEN proc' = [proc EXCEPT ![p].pc = "create"]
             ELSE proc' = [proc EXCEPT ![p] = Got(q, CHOOSE i \in found : \A j \in found : i <= j)]
    /\ UNCHANGED <<kind, contacts, emails, now, report>>
    /\ UNCHANGED lineVars /\ UNCHANGED digestVars

(* get_contact: `if cnobj is None: ... self.db.add(cnobj)` *)
GetContactAdd(p) ==
    /\ kind = "mail" /\ proc[p].pc = "create"
    /\ LET q == proc[p]
           c == Contact(Target(q))
       IN  \E o \in DbOutcomes :
             IF o # "ok"
             THEN proc' = [proc EXCEPT ![p] = Failed(q, o)] /\ UNCHANGED contacts
             ELSE IF ~ContactUnique(contacts, c)
             THEN proc' = [proc EXCEPT ![p] = Failed(q, "IntegrityError")] /\ UNCHANGED contacts
             ELSE /\ contacts' = DatabaseAdd(contacts, c)
                  /\ proc' = [proc EXCEPT ![p] = Got([q EXCEPT !.pc = "lookup"], Len(contacts) + 1)]
    /\ UNCHANGED <<kind, emails, now, report>>
    /\ UNCHANGED lineVars /\ UNCHANGED digestVars

(* insert_entry: self.db.add(EMail(...)) *)
AddEMail(p) ==
    /\ kind = "mail" /\ proc[p].pc = "email"
    /\ LET q == proc[p]
           e == [timestamp |-> q.timestamp, subject |-> Truncate(q.args.subject),
                 sender |-> q.sender, size |-> q.args.size, date |-> q.args.date,
                 tocc |-> q.tocc]
       IN  \E o \in DbOutcomes :
             IF o # "ok"
             THEN proc' = [proc EXCEPT ![p] = Failed(q, o)] /\ UNCHANGED emails
             ELSE IF ~ToccUnique(q.tocc)
             THEN proc' = [proc EXCEPT ![p] = Failed(q, "IntegrityError")] /\ UNCHANGED emails
             ELSE /\ emails' = DatabaseAdd(emails, e)
                  /\ proc' = [proc EXCEPT ![p].pc = "idle", ![p].n = @ + 1,
                                          ![p].status = "exit0"]
    /\ UNCHANGED <<kind, contacts, now, report>>
    /\ UNCHANGED lineVars /\ UNCHANGED digestVars

(* The messages the mail runs are fed *)
A1 == Addr("Al", "al@example.org")
A2 == Addr("Al", "al@example.com")
A3 == Addr("", "al@example.org")

Subj(t, n) == [present |-> TRUE, text |-> t, len |-> n]
NoSubj == [present |-> FALSE, text |-> "", len |-> 0]
Date(d) == [present |-> TRUE, datetime |-> d]
NoDate == [present |-> FALSE, datetime |-> 0]

Message(sub, from, date, to, cc) ==
    [subject |-> sub, from |-> from, date |-> date, to |-> to, cc |-> cc, size |-> 120]

Messages ==
    { Message(Subj("hi", 2), Hdr(<<f>>), Date(1), to, cc) :
        f \in {A1, A3},
        to \in {NoHdr, Hdr(<<A2, A2>>), Hdr(<<A3, A1>>)},
        cc \in {NoHdr, Hdr(<<A1>>)} }
    \cup
    { Message(NoSubj, Hdr(<<A2, A1>>), Date(2), Hdr(<<A1>>), NoHdr),
      Message(Subj("", 0), Hdr(<<A2>>), Date(2), Hdr(<<A1>>), NoHdr),
      Message(Subj("long", 3000), Hdr(<<A2>>), Date(2), Hdr(<<A1>>), NoHdr),
      Message(Subj("hi", 2), NoHdr, Date(1), Hdr(<<A1>>), Hdr(<<A2>>)),
      Message(Subj("hi", 2), Hdr(<<>>), Date(1), Hdr(<<A1>>), Hdr(<<A2>>)),
      Message(Subj("hi", 2), Hdr(<<A1>>), NoDate, Hdr(<<A1>>), Hdr(<<A2>>)) }

----------------------------------------------------------------------------
(* The ingestion commands: one line-based run, or mail runs one after the *)
(* other, each on an initially empty database                              *)

SeqsUpTo(S, n) == UNION {[1..k -> S] : k \in 0..n}

(* class Features: every flag defaults to False *)
FeaturesDefault == [apache_access |-> FALSE, authfail |-> FALSE, maillog |-> FALSE]

DigestIdle ==
    /\ tags = {} /\ reports = <<>> /\ subject = <<>> /\ body = <<>> /\ dpc = "idle"
    /\ features = FeaturesDefault /\ queried = {}

Init ==
    /\ kind \in {"access", "authfail", "mail"}
    /\ stdin \in SeqsUpTo(IF kind = "access" THEN AccessLines
                          ELSE IF kind = "authfail" THEN AuthfailLines ELSE {}, MaxInput)
    /\ pos = 0 /\ line = NoLine /\ store = <<>> /\ stderr = <<>>
    /\ status = IF kind = "access" THEN "connecting"
                ELSE IF kind = "authfail" THEN "running" ELSE "none"
    /\ contacts = <<>> /\ emails = <<>>
    /\ proc = [p \in {1} |-> IdleProc]
    /\ now = 0 /\ report = <<>>
    /\ DigestIdle

(* Time passes *)
Tick ==
    /\ now < MaxClock
    /\ now' = now + 1
    /\ UNCHANGED <<kind, report>>
    /\ UNCHANGED lineVars /\ UNCHANGED mailVars /\ UNCHANGED digestVars

Next ==
    \/ AccessConnect
    \/ AccessLine
    \/ AccessEof
    \/ AuthfailLine
    \/ AuthfailEof
    \/ \E p \in DOMAIN proc : \E m \in Messages : MailRead(p, m)
    \/ \E p \in DOMAIN proc : GetContactSelect(p)
    \/ \E p \in DOMAIN proc : GetContactAdd(p)
    \/ \E p \in DOMAIN proc : AddEMail(p)
    \/ Tick

Spec == Init /\ [][Next]_vars

----------------------------------------------------------------------------
(* Properties of the ingestion runs *)

LineBased == kind \in {"access", "authfail"}

(* Does the line make an event, and which *)
LineOk(l) ==
    IF kind = "access"
    THEN AccessParse(l).ok /\ AccessRowValid(AccessParse(l).args)
    ELSE AuthfailParse(l).ok /\ AuthfailParse(l).event.src_addr \in InetWords

EventOf(l) ==
    IF kind = "access" THEN AccessRow(AccessParse(l).args) ELSE AuthfailParse(l).event

(* The run ended on an exception raised while handling line number pos *)
FailedAtLine == status = "exit1" /\ pos >= 1

(* C1: a line-based run persists one event per unit, in input order, up   *)
(* to the unit before the first failing one: every unit read so far has   *)
(* its event in the store before the next is read, the failing unit and   *)
(* the units after it have none, what was persisted before the failure    *)
(* stays, and a run that ends without failure has consumed its input.     *)
IngestPrefixPersisted ==
    LineBased =>
        /\ Len(store) = (IF FailedAtLine THEN pos - 1 ELSE pos)
        /\ \A i \in 1..Len(store) : LineOk(stdin[i]) /\ store[i] = EventOf(stdin[i])
        /\ status = "exit0" => pos = Len(stdin)
        /\ FailedAtLine /\ stderr[1].error_type # "OperationalError" => ~LineOk(stdin[pos])

IngestPrefixWitness ==
    /\ kind = "authfail" /\ FailedAtLine /\ pos = 2 /\ Len(store) = 1

(* The diagnostic of a line-based run, as section 6 of the document has it *)
DiagnosticFields == {"fmt", "time", "line", "traceback", "error_type", "error"}

IsStructuredDiagnostic(out, l) ==
    /\ Len(out) = 1
    /\ out[1].fmt = "json"
    /\ DOMAIN out[1] = DiagnosticFields
    /\ out[1].line = l

LineRunDiagnostic ==
    LineBased =>
        /\ status = "exit1" =>
              IsStructuredDiagnostic(stderr, IF pos = 0 THEN NoLine ELSE stdin[pos])
        /\ status # "exit1" => stderr = <<>>

LastEMail == emails[Len(emails)]
Stored(p) == kind = "mail" /\ proc[p].status = "exit0"
NoIntegrityError(p) ==
    proc[p].status = "exit1" => proc[p].stderr[3].error_type # "IntegrityError"

(* C3: one process inserting mail never makes two Contact rows with the   *)
(* same (realname, address): the sender of every stored message is the    *)
(* row of exactly its From pair, found when it exists and created         *)
(* otherwise, and no run fails on the uniqueness constraint.              *)
ContactsFindOrCreate ==
    kind = "mail" =>
        /\ \A i, j \in 1..Len(contacts) : contacts[i] = contacts[j] => i = j
        /\ \A k \in 1..Len(emails) : emails[k].sender \in 1..Len(contacts)
        /\ \A p \in DOMAIN proc :
              /\ Stored(p) =>
                    contacts[LastEMail.sender] = Contact(proc[p].msg.from.addresses[1])
              /\ NoIntegrityError(p)

ContactsWitness ==
    /\ kind = "mail" /\ Len(emails) = 2 /\ Len(contacts) = 1
    /\ emails[1].sender = emails[2].sender

(* C4: the recipients of every stored message name each Contact once and  *)
(* are, as a set, the Contacts of the pairs in To and, if present, CC.    *)
RecipientsDeduplicated ==
    kind = "mail" =>
        /\ \A k \in 1..Len(emails) :
              /\ ToccUnique(emails[k].tocc)
              /\ Range(emails[k].tocc) \subseteq 1..Len(contacts)
        /\ \A p \in DOMAIN proc :
              /\ Stored(p) =>
                    {contacts[c] : c \in Range(LastEMail.tocc)}
                       = {Contact(a) : a \in Range(Recipients(proc[p].msg))}
              /\ NoIntegrityError(p)

RecipientsWitness ==
    /\ Stored(1)
    /\ proc[1].msg.to.present /\ proc[1].msg.cc.present
    /\ Len(LastEMail.tocc) = 2 /\ Len(Recipients(proc[1].msg)) = 3

(* The fields a line has when cut at every "|", and the "|" outside and   *)
(* inside the quoted strings                                              *)
PipeFields(l) == 1 + Cardinality({i \in 1..Len(l) : l[i] = "|"})
InQuotes(l, i) == Cardinality({j \in 1..(i - 1) : l[j] = "q"}) % 2 = 1
OutsidePipes(l) == Cardinality({i \in 1..Len(l) : l[i] = "|" /\ ~InQuotes(l, i)})

RECURSIVE StripQuotedPipesFrom(_, _)
StripQuotedPipesFrom(l, i) ==
    IF i > Len(l) THEN <<>>
    ELSE (IF l[i] = "|" /\ InQuotes(l, i) THEN <<>> ELSE <<l[i]>>)
         \o StripQuotedPipesFrom(l, i + 1)
StripQuotedPipes(l) == StripQuotedPipesFrom(l, 1)

AccessHandled == kind = "access" /\ pos >= 1
AccessStored == AccessHandled /\ status # "exit1"

ForIndex(l) == HeadLen(IsRepeat(l, 4)) + 3
HasInvalidUserPrefix(l) ==
    /\ Len(l) >= ForIndex(l) + 2
    /\ l[ForIndex(l) + 1] = "invalid" /\ l[ForIndex(l) + 2] = "user"

MatchesAPattern(l) == fullmatch(1, l).matched \/ fullmatch(2, l).matched
FirstMatch(l) == IF fullmatch(1, l).matched THEN fullmatch(1, l) ELSE fullmatch(2, l)

AuthfailHandled == kind = "authfail" /\ pos >= 1
AuthfailStored == AuthfailHandled /\ status # "exit1"

(* C6 as stated: a line makes an event exactly when the whole line        *)
(* matches pattern 1 or 2 (the timestamp and the address being ones the   *)
(* store takes), the event holds the groups of the first pattern that     *)
(* matches, a pattern-1 username comes without the "invalid user " the    *)
(* raw text has, and a line matching neither fails with "Could not parse  *)
(* logfile entry" and stores nothing.                                     *)
AuthfailPatternClaim ==
    AuthfailHandled =>
        LET l == stdin[pos]
            m == FirstMatch(l)
        IN  /\ AuthfailStored =>
                  /\ MatchesAPattern(l)
                  /\ Len(store) = pos
                  /\ store[pos].timestamp = fromisoformat(m.timestamp)
                  /\ store[pos].username = m.username
                  /\ store[pos].src_addr = m.src_addr
                  /\ (fullmatch(1, l).matched /\ HasInvalidUserPrefix(l)) =>
                        store[pos].username
                           = SubSeq(l, ForIndex(l) + 3,
                                    ForIndex(l) + 2 + Len(store[pos].username))
            /\ ~MatchesAPattern(l) =>
                  /\ status = "exit1"
                  /\ stderr[1].error = "Could not parse logfile entry"
                  /\ Len(store) = pos - 1
            /\ (MatchesAPattern(l) /\ IsIso(m.timestamp) /\ m.src_addr \in InetWords) =>
                  \/ AuthfailStored
                  \/ stderr[1].error_type = "OperationalError"

----------------------------------------------------------------------------
(* The daily reports of authfail.py and apache_access.py *)

(* Request lines in ascending order of the column's collation *)
ReqlineOrder == <<<<"GET / HTTP/1.1">>, <<"GET /a HTTP/1.1">>, <<"POST / HTTP/1.1">>>>

Rank(order, k) == CHOOSE i \in 1..Len(order) : order[i] = k

(* .where(timestamp >= one_day_ago()): the ids of the rows selected at t *)
Where(tbl, t) == {i \in 1..Len(tbl) : tbl[i].timestamp >= one_day_ago(t)}

RECURSIVE Sum(_, _, _)
Sum(tbl, ids, col) ==
    IF ids = {} THEN 0
    ELSE LET i == CHOOSE x \in ids : TRUE
         IN  tbl[i][col] + Sum(tbl, ids \ {i}, col)

(* .group_by(col): one row per value of the column, with its count and the   *)
(* sums of the byte columns                                               *)
GroupBy(tbl, ids, col) ==
    { [key |-> k,
       qty |-> Cardinality({i \in ids : tbl[i][col] = k}),
       byin |-> IF col = "reqline"
                THEN Sum(tbl, {i \in ids : tbl[i][col] = k}, "bytesin") ELSE 0,
       byout |-> IF col = "reqline"
                 THEN Sum(tbl, {i \in ids : tbl[i][col] = k}, "bytesout") ELSE 0]
      : k \in {tbl[i][col] : i \in ids} }

(* .order_by(sa.desc("qty"), sa.asc(col)): does row a come before row b *)
OrderByAscending(order, a, b) ==
    \/ a.qty < b.qty
    \/ a.qty = b.qty /\ Rank(order, a.key) < Rank(order, b.key)

OrderBy(order, a, b) ==
    \/ a.qty > b.qty
    \/ a.qty = b.qty /\ Rank(order, a.key) < Rank(order, b.key)

RECURSIVE Sorted(_, _)
Sorted(rows, order) ==
    IF rows = {} THEN <<>>
    ELSE LET first == CHOOSE r \in rows : \A o \in rows \ {r} : OrderBy(order, r, o)
         IN  <<first>> \o Sorted(rows \ {first}, order)

RECURSIVE Total(_, _)
Total(rows, col) == IF rows = <<>> THEN 0 ELSE Head(rows)[col] + Total(Tail(rows), col)

NoReport == [made |-> FALSE]

(* Authfail.daily_report: the rows added to the table *)
AuthfailDailyReport ==
    /\ kind = "authfail"
    /\ report' = [made |-> TRUE, col |-> "src_addr", order |-> InetOrder,
                  rows |-> Sorted(GroupBy(store, Where(store, now), "src_addr"), InetOrder),
                  bytesIn |-> 0, bytesOut |-> 0]
    /\ UNCHANGED <<kind, now>>
    /\ UNCHANGED lineVars /\ UNCHANGED mailVars /\ UNCHANGED digestVars

(* ApacheAccess.daily_report: the rows added to the table, and the totals *)
AccessDailyReport ==
    /\ kind = "access"
    /\ LET rows == Sorted(GroupBy(store, Where(store, now), "reqline"), ReqlineOrder)
       IN  report' = [made |-> TRUE, col |-> "reqline", order |-> ReqlineOrder,
                      rows |-> rows,
                      bytesIn |-> Total(rows, "byin"), bytesOut |-> Total(rows, "byout")]
    /\ UNCHANGED <<kind, now>>
    /\ UNCHANGED lineVars /\ UNCHANGED mailVars /\ UNCHANGED digestVars

(* The reports are made at ReportTime; the events that ingestion runs     *)
(* have stored carry timestamps before the window, on its start, at the   *)
(* time of the report and after it.                                       *)
ReportTime == Day + 1
EventTimes == 0..(ReportTime + 1)

AuthfailEvents ==
    { [timestamp |-> t, username |-> <<"bob">>, src_addr |-> a] :
        t \in EventTimes, a \in InetWords }

AccessEvents ==
    { [timestamp |-> t, host |-> <<"example.org">>, port |-> 80, src_addr |-> "1.2.3.4",
       authuser |-> <<"-">>, bytesin |-> 5, bytesout |-> 7, microsecs |-> 9,
       status |-> 200, reqline |-> r, method |-> <<"GET">>, path |-> <<"/">>,
       protocol |-> <<"HTTP/1.1">>, referer |-> <<"-">>, user_agent |-> <<"curl">>] :
        t \in EventTimes, r \in Range(ReqlineOrder) }

(* Authfail.insert by an auth-failure run that parsed e *)
AuthfailInsert(e) ==
    /\ kind = "authfail" /\ Len(store) < MaxEvents
    /\ store' = DatabaseAdd(store, e)
    /\ report' = NoReport
    /\ UNCHANGED <<kind, stdin, pos, line, stderr, status, now>>
    /\ UNCHANGED mailVars /\ UNCHANGED digestVars

(* ApacheAccess.insert_entry by an access-log run that parsed e *)
AccessInsert(e) ==
    /\ kind = "access" /\ Len(store) < MaxEvents
    /\ store' = SchemaConnExecute(store, e)
    /\ report' = NoReport
    /\ UNCHANGED <<kind, stdin, pos, line, stderr, status, now>>
    /\ UNCHANGED mailVars /\ UNCHANGED digestVars

InitReport ==
    /\ kind \in {"access", "authfail"}
    /\ stdin = <<>> /\ pos = 0 /\ line = NoLine /\ store = <<>> /\ stderr = <<>>
    /\ status = "none"
    /\ contacts = <<>> /\ emails = <<>>
    /\ proc = [p \in {1} |-> IdleProc]
    /\ now = ReportTime /\ report = NoReport
    /\ DigestIdle

NextReport ==
    \/ \E e \in AuthfailEvents : AuthfailInsert(e)
    \/ \E e \in AccessEvents : AccessInsert(e)
    \/ AuthfailDailyReport
    \/ AccessDailyReport

SpecReport == InitReport /\ [][NextReport]_vars

(* The key of a stored event under the report's grouping column *)
ReportedIds == Where(store, now)
KeyCount(ids, k) == Cardinality({i \in ids : store[i][report.col] = k})

(* C9: in both reports each grouping key of the selected events has       *)
(* exactly one row, whose count is the number of selected events with     *)
(* that key, and the rows come by count descending, ties by key           *)
(* ascending.  The selected events are those the query's WHERE clause     *)
(* takes; where the window ends is the subject of C10.                    *)
ReportGroupsAndOrder ==
    report.made =>
        LET rows == report.rows
            keys == {store[i][report.col] : i \in ReportedIds}
        IN  /\ \A k \in keys :
                  /\ Cardinality({i \in 1..Len(rows) : rows[i].key = k}) = 1
                  /\ \A i \in 1..Len(rows) :
                        rows[i].key = k => rows[i].qty = KeyCount(ReportedIds, k)
            /\ \A i \in 1..Len(rows) : rows[i].key \in keys
            /\ \A i, j \in 1..Len(rows) :
                  i < j =>
                     \/ rows[i].qty > rows[j].qty
                     \/ /\ rows[i].qty = rows[j].qty
                        /\ Rank(report.order, rows[i].key) < Rank(report.order, rows[j].key)

ReportGroupsWitness ==
    /\ report.made /\ kind = "access" /\ Len(report.rows) = 3
    /\ report.rows[1].qty = 2 /\ report.rows[1].key = ReqlineOrder[3]
    /\ report.rows[2].qty = 1 /\ report.rows[2].key = ReqlineOrder[1]
    /\ report.rows[3].qty = 1 /\ report.rows[3].key = ReqlineOrder[2]

(* C10 as stated: a report made at `now` counts an event exactly when its *)
(* timestamp lies in [now - 24 hours, now]: older events and events       *)
(* later than now are left out, an event at now - 24 hours is counted.    *)
ReportClosedWindow ==
    report.made =>
        LET ids == {i \in 1..Len(store) :
                      now - Day <= store[i].timestamp /\ store[i].timestamp <= now}
        IN  /\ {r.key : r \in Range(report.rows)} = {store[i][report.col] : i \in ids}
            /\ \A r \in Range(report.rows) : r.qty = KeyCount(ids, r.key)

----------------------------------------------------------------------------
(* dailyreport.py: the composition of the body and of the subject from    *)
(* the list of fragments and the tag set the checks have left             *)

TAGSEQAlphabetical == <<"DISK", "LOGERR", "MAIL", "REBOOT">>

TAGSEQ == <<"DISK", "LOGERR", "REBOOT", "MAIL">>

(* Tag names in the order sorted() gives strings *)
TagOrder == <<"BACKUP", "DISK", "EXTRA", "LOGERR", "MAIL", "REBOOT", "UPDATE">>
TagUniverse == Range(TagOrder)

(* The checks in the order main appends their fragments to `reports` *)
ReportOrder == <<"errlogs", "reboot", "load", "disk", "traffic", "inbox", "authfail", "access">>

(* A fragment is None, the empty string, or lines of text each ended by   *)
(* a newline                                                              *)
None == <<"None">>
FragmentText(name) == <<name, "\n">>

(* `r is not None and r != ""` *)
KeptNotNone(r) == r # None

Kept(r) == r # None /\ r # <<>>

(* "\n".join(rs) *)
RECURSIVE join(_)
join(rs) ==
    IF rs = <<>> THEN <<>>
    ELSE IF Len(rs) = 1 THEN rs[1]
    ELSE rs[1] \o <<"\n">> \o join(Tail(rs))

FilterKept(rs) == SelectSeq(rs, Kept)

(* main: body = "\n".join(...); if not body: body = "Nothing to report\n" *)
Body(rs) ==
    IF join(FilterKept(rs)) = <<>> THEN <<"Nothing to report", "\n">>
    ELSE join(FilterKept(rs))

(* "[" + t + "] " *)
TagPiece(t) == "[" \o t \o "] "

(* sorted(tags) *)
RECURSIVE sorted(_)
sorted(S) ==
    IF S = {} THEN <<>>
    ELSE LET least == CHOOSE t \in S :
                        \A o \in S : Rank(TagOrder, t) <= Rank(TagOrder, o)
         IN  <<least>> \o sorted(S \ {least})

(* The tags main emits in its first loop, which also removes them *)
PriorityTags(S) == SelectSeq(TAGSEQ, LAMBDA t : t \in S)

(* main: the subject *)
Subject(S) ==
    LET first == PriorityTags(S)
        rest == sorted(S \ Range(first))
    IN  [i \in 1..Len(first) |-> TagPiece(first[i])]
        \o [i \in 1..Len(rest) |-> TagPiece(rest[i])]
        \o <<"Status Report: ", "hostname", ", ", "iso8601_Z">>

(* main, lines 133-135 *)
ComposeBody ==
    /\ kind = "body" /\ dpc = "collected"
    /\ body' = Body(reports)
    /\ dpc' = "done"
    /\ UNCHANGED <<kind, now, report, tags, reports, subject, features, queried>>
    /\ UNCHANGED lineVars /\ UNCHANGED mailVars

(* main, lines 136-143 *)
ComposeSubject ==
    /\ kind = "subject" /\ dpc = "collected"
    /\ subject' = Subject(tags)
    /\ tags' = tags \ Range(PriorityTags(tags))
    /\ dpc' = "done"
    /\ UNCHANGED <<kind, now, report, reports, body, features, queried>>
    /\ UNCHANGED lineVars /\ UNCHANGED mailVars

InitDigest ==
    /\ kind \in {"body", "subject"}
    /\ stdin = <<>> /\ pos = 0 /\ line = NoLine /\ store = <<>> /\ stderr = <<>>
    /\ status = "none"
    /\ contacts = <<>> /\ emails = <<>>
    /\ proc = [p \in {1} |-> IdleProc]
    /\ now = 0 /\ report = NoReport
    /\ tags \in (IF kind = "subject" THEN SUBSET TagUniverse ELSE {{}})
    /\ \E c \in [1..Len(ReportOrder) -> {"None", "empty", "text"}] :
          reports = IF kind = "body"
                    THEN [i \in 1..Len(ReportOrder) |->
                            IF c[i] = "None" THEN None
                            ELSE IF c[i] = "empty" THEN <<>>
                            ELSE FragmentText(ReportOrder[i])]
                    ELSE <<>>
    /\ subject = <<>> /\ body = <<>> /\ dpc = "collected"
    /\ features = FeaturesDefault /\ queried = {}

NextDigest ==
    \/ ComposeBody
    \/ ComposeSubject

SpecDigest == InitDigest /\ [][NextDigest]_vars

(* What the subject must be for a tag set S *)
SuffixLen == 4
TagAt(subj, i) == CHOOSE t \in TagUniverse : TagPiece(t) = subj[i]
IsPriority(t) == t \in {"DISK", "LOGERR", "REBOOT", "MAIL"}
PriorityRank(t) ==
    IF t = "DISK" THEN 1 ELSE IF t = "LOGERR" THEN 2 ELSE IF t = "REBOOT" THEN 3 ELSE 4
TagBefore(a, b) ==
    \/ IsPriority(a) /\ IsPriority(b) /\ PriorityRank(a) < PriorityRank(b)
    \/ IsPriority(a) /\ ~IsPriority(b)
    \/ ~IsPriority(a) /\ ~IsPriority(b) /\ Rank(TagOrder, a) < Rank(TagOrder, b)

SubjectFor(S, subj) ==
    LET n == Cardinality(S)
    IN  /\ Len(subj) = n + SuffixLen
        /\ \A t \in S : Cardinality({i \in 1..n : subj[i] = TagPiece(t)}) = 1
        /\ \A i, j \in 1..n : i < j => TagBefore(TagAt(subj, i), TagAt(subj, j))
        /\ SubSeq(subj, n + 1, n + SuffixLen)
              = <<"Status Report: ", "hostname", ", ", "iso8601_Z">>

(* C7: the subject lists each tag of the accumulated set once as          *)
(* "[TAG] ": the members of DISK, LOGERR, REBOOT, MAIL in that order,     *)
(* then the other tags in lexicographic order, then "Status Report:       *)
(* <hostname>, <UTC timestamp>".                                          *)
SubjectTagOrder == [][ComposeSubject => SubjectFor(tags, subject')]_vars

SubjectWitness ==
    /\ kind = "subject" /\ dpc = "done"
    /\ SubSeq(subject, 1, 3) = <<"[LOGERR] ", "[MAIL] ", "[EXTRA] ">>
    /\ Len(subject) = 3 + SuffixLen

(* Where the fragment of check i starts in the body: after the kept       *)
(* fragments before it, each followed by one newline                      *)
KeptBefore(rs, i) == {j \in 1..(i - 1) : rs[j] # None /\ rs[j] # <<>>}

RECURSIVE LenSum(_, _)
LenSum(rs, js) ==
    IF js = {} THEN 0
    ELSE LET j == CHOOSE x \in js : TRUE IN Len(rs[j]) + 1 + LenSum(rs, js \ {j})

StartOf(rs, i) == 1 + LenSum(rs, KeptBefore(rs, i))

(* C8: the body holds every non-empty fragment once, in the order         *)
(* errlogs, reboot, load, disk, traffic, inbox, authfail, access, a       *)
(* blank line between consecutive ones, nothing for an absent or empty    *)
(* fragment; with no fragment left it is "Nothing to report\n".           *)
BodyFragments ==
    (kind = "body" /\ dpc = "done") =>
        LET n == Len(reports)
            kept == KeptBefore(reports, n + 1)
        IN  IF kept = {} THEN body = <<"Nothing to report", "\n">>
            ELSE /\ Len(body) = LenSum(reports, kept) - 1
                 /\ \A i \in kept :
                       /\ reports[i] = FragmentText(ReportOrder[i])
                       /\ SubSeq(body, StartOf(reports, i),
                                 StartOf(reports, i) + Len(reports[i]) - 1) = reports[i]
                       /\ StartOf(reports, i) > 1 =>
                             /\ body[StartOf(reports, i) - 1] = "\n"
                             /\ body[StartOf(reports, i) - 2] = "\n"

BodyWitness ==
    /\ kind = "body" /\ dpc = "done"
    /\ reports[1] = None /\ reports[2] = <<>>
    /\ body = <<"load", "\n", "\n", "disk", "\n", "\n", "access", "\n">>

BodyNothingWitness ==
    /\ kind = "body" /\ dpc = "done" /\ body = <<"Nothing to report", "\n">>

----------------------------------------------------------------------------
(* maillog.py: MailLog.daily_report.  In the report an e-mail address is  *)
(* the sequence <<local part, "@", domain>>, and the output of postconf   *)
(* the sequence of the domain names with ", " between them and a          *)
(* newline at the end.                                                    *)

Title == "E-mails received in the past 24 hours:"

(* str.lower() of a name *)
lower(w) ==
    IF w = "Example.ORG" THEN "example.org"
    ELSE IF w = "LocalHost" THEN "localhost"
    ELSE w

(* s.strip(): the whitespace at both ends goes *)
RECURSIVE strip(_)
strip(s) ==
    IF s = <<>> THEN s
    ELSE IF Head(s) = "\n" THEN strip(Tail(s))
    ELSE IF s[Len(s)] = "\n" THEN strip(SubSeq(s, 1, Len(s) - 1))
    ELSE s

(* s.split(", "): the pieces between the separators, as strings *)
RECURSIVE splitOn(_, _)
splitOn(s, sep) ==
    IF \A i \in 1..Len(s) : s[i] # sep THEN <<s>>
    ELSE LET i == CHOOSE x \in 1..Len(s) : s[x] = sep /\ \A y \in 1..(x - 1) : s[y] # sep
         IN  <<SubSeq(s, 1, i - 1)>> \o splitOn(SubSeq(s, i + 1, Len(s)), sep)

(* set(check_output(postconf ...).strip().lower().split(", ")) *)
Dests(output) ==
    Range(splitOn([i \in 1..Len(strip(output)) |-> lower(strip(output)[i])], ", "))

(* s.partition(sep): what is before the first sep, sep, what is after *)
partition(s, sep) ==
    IF \A i \in 1..Len(s) : s[i] # sep THEN <<s, <<>>, <<>>>>
    ELSE LET i == CHOOSE x \in 1..Len(s) : s[x] = sep /\ \A y \in 1..(x - 1) : s[y] # sep
         IN  <<SubSeq(s, 1, i - 1), <<sep>>, SubSeq(s, i + 1, Len(s))>>

(* `c.email_address.partition("@")[2] in dests` *)
IsLocal(c, dests) == partition(c.email_address, "@")[3] \in dests

(* Real names and addresses in the order Python compares strings *)
RealnameOrder == <<"", "Al", "Bo">>
AddressOrder ==
    << <<"al", "@", "Example.ORG">>, <<"al", "@", "example.org">>,
       <<"bo", "@", "elsewhere.net">>, <<"bo", "@", "example.org">> >>

(* key=lambda c: (c.realname, c.email_address): does a come before b *)
RecipKeyBefore(a, b) ==
    \/ Rank(RealnameOrder, a.realname) < Rank(RealnameOrder, b.realname)
    \/ /\ a.realname = b.realname
       /\ Rank(AddressOrder, a.email_address) < Rank(AddressOrder, b.email_address)

(* recips.sort(key=...): a stable sort of the list *)
RECURSIVE SortRecips(_)
SortRecips(cs) ==
    IF cs = <<>> THEN <<>>
    ELSE LET i == CHOOSE x \in 1..Len(cs) :
                    /\ \A y \in 1..Len(cs) : ~RecipKeyBefore(cs[y], cs[x])
                    /\ \A y \in 1..(x - 1) : RecipKeyBefore(cs[x], cs[y])
         IN  <<cs[i]>> \o SortRecips(SubSeq(cs, 1, i - 1) \o SubSeq(cs, i + 1, Len(cs)))

(* .order_by(sa.asc(EMail.timestamp), sa.asc(EMail.id)): the ids in order *)
RECURSIVE OrderMail(_, _)
OrderMail(tbl, ids) ==
    IF ids = {} THEN <<>>
    ELSE LET i == CHOOSE x \in ids :
                    \A y \in ids \ {x} :
                        \/ tbl[x].timestamp < tbl[y].timestamp
                        \/ tbl[x].timestamp = tbl[y].timestamp /\ x < y
         IN  <<i>> \o OrderMail(tbl, ids \ {i})

(* The block of the report for the message with id i *)
MailBlock(tbl, cns, i, dests) ==
    LET tocc == [k \in 1..Len(tbl[i].tocc) |-> cns[tbl[i].tocc[k]]]
    IN  [id |-> i,
         From |-> cns[tbl[i].sender],
         To |-> SortRecips(SelectSeq(tocc, LAMBDA c : IsLocal(c, dests))),
         Subject |-> tbl[i].subject,
         Date |-> tbl[i].date,
         Size |-> tbl[i].size]

(* MailLog.daily_report, with the output of postconf *)
MailDailyReport(output) ==
    /\ kind = "inbox"
    /\ LET newmail == OrderMail(emails, Where(emails, now))
       IN  report' =
             IF newmail = <<>>
             THEN [made |-> TRUE, head |-> <<Title, " none\n">>, blocks |-> <<>>,
                   output |-> output]
             ELSE [made |-> TRUE, head |-> <<Title, "\n---\n">>,
                   blocks |-> [k \in 1..Len(newmail) |->
                                 MailBlock(emails, contacts, newmail[k], Dests(output))],
                   output |-> output]
    /\ UNCHANGED <<kind, now>>
    /\ UNCHANGED lineVars /\ UNCHANGED mailVars /\ UNCHANGED digestVars


(* The contacts the mail runs have stored, and the messages they store:   *)
(* stamped before the window, on its start, at the time of the report     *)
(* and after it, with their recipients in the order the rows are loaded   *)
ReportContacts ==
    << [realname |-> "Al", email_address |-> <<"al", "@", "example.org">>],
       [realname |-> "Al", email_address |-> <<"al", "@", "Example.ORG">>],
       [realname |-> "", email_address |-> <<"bo", "@", "example.org">>],
       [realname |-> "Bo", email_address |-> <<"bo", "@", "elsewhere.net">>] >>

MailEvents ==
    { [timestamp |-> t, subject |-> [text |-> "hi", len |-> 2], sender |-> 4,
       size |-> 120, date |-> 1, tocc |-> r] :
        t \in EventTimes, r \in {<<1, 3>>, <<4, 2, 1>>} }

PostconfOutputs ==
    { <<"example.org", ", ", "localhost", "\n">>,
      <<"Example.ORG", ", ", "LocalHost", "\n">>,
      <<"elsewhere.net", "\n">> }

(* insert_entry's self.db.add(EMail(...)) by a mail run that handled e *)
MailInsert(e) ==
    /\ kind = "inbox" /\ Len(emails) < MaxEvents
    /\ emails' = DatabaseAdd(emails, e)
    /\ report' = NoReport
    /\ UNCHANGED <<kind, contacts, proc, now>>
    /\ UNCHANGED lineVars /\ UNCHANGED digestVars

InitMailReport ==
    /\ kind = "inbox"
    /\ stdin = <<>> /\ pos = 0 /\ line = NoLine /\ store = <<>> /\ stderr = <<>>
    /\ status = "none"
    /\ contacts = ReportContacts /\ emails = <<>>
    /\ proc = [p \in {1} |-> IdleProc]
    /\ now = ReportTime /\ report = NoReport
    /\ DigestIdle

NextMailReport ==
    \/ \E e \in MailEvents : MailInsert(e)
    \/ \E o \in PostconfOutputs : MailDailyReport(o)

SpecMailReport == InitMailReport /\ [][NextMailReport]_vars

(* The domain of contact c, lowered, is one of the supplied domains,      *)
(* lowered                                                                *)
Domain(c) == partition(c.email_address, "@")[3]
Lowered(s) == [i \in 1..Len(s) |-> lower(s[i])]
SuppliedDomains(output) == Range(splitOn(strip(output), ", "))
DomainIsLocal(c, output) ==
    Lowered(Domain(c)) \in {Lowered(d) : d \in SuppliedDomains(output)}

(* The messages come by timestamp ascending, ties by id ascending, and    *)
(* are the messages the query selects                                     *)
MailReportListing ==
    report.made =>
        /\ {report.blocks[k].id : k \in 1..Len(report.blocks)} = Where(emails, now)
        /\ \A j, k \in 1..Len(report.blocks) :
              j < k =>
                 LET a == emails[report.blocks[j].id]
                     b == emails[report.blocks[k].id]
                 IN  \/ a.timestamp < b.timestamp
                     \/ a.timestamp = b.timestamp /\ report.blocks[j].id < report.blocks[k].id

(* The recipients shown come by (realname, address) ascending and are     *)
(* recipients of the message                                              *)
MailReportRecipientsSorted ==
    report.made =>
        \A k \in 1..Len(report.blocks) :
            LET to == report.blocks[k].To
            IN  /\ \A i, j \in 1..Len(to) : i < j => RecipKeyBefore(to[i], to[j])
                /\ \A i \in 1..Len(to) :
                      to[i] \in {contacts[c] : c \in Range(emails[report.blocks[k].id].tocc)}

(* With no message selected the report is "<title> none\n" *)
MailReportNone ==
    report.made =>
        (Where(emails, now) = {} <=> report.head = <<Title, " none\n">>)

(* A recipient is shown if and only if its domain, case ignored, is one   *)
(* of the supplied domains                                                *)
MailReportLocalOnly ==
    report.made =>
        \A k \in 1..Len(report.blocks) :
            \A c \in Range(emails[report.blocks[k].id].tocc) :
                contacts[c] \in Range(report.blocks[k].To)
                    <=> DomainIsLocal(contacts[c], report.output)

(* C11 as stated: the mail report lists the in-window messages by         *)
(* timestamp ascending, ties by id ascending; of each message it shows    *)
(* the recipients whose address's domain, compared case-insensitively,    *)
(* is one of the supplied local domains, and only those, sorted by        *)
(* (realname, address); with no in-window message it is exactly           *)
(* "<title> none\n".  In-window is what the query selects; where the      *)
(* window ends is the subject of C10.                                     *)
MailReportClaim ==
    /\ MailReportListing
    /\ MailReportRecipientsSorted
    /\ MailReportNone
    /\ MailReportLocalOnly

----------------------------------------------------------------------------
(* dailyreport.py: the collection of the fragments and of the tags.  What *)
(* a check finds outside the program (a non-empty log directory, a full   *)
(* disk, ...) is an input of its step.                                    *)

(* check_mailbox *)
check_mailbox(ts, nonempty) == IF nonempty THEN ts \cup {"MAIL"} ELSE ts

(* check_errlogs: the tags, and the fragment returned *)
check_errlogs(ts, errlogs) ==
    IF errlogs THEN [tags |-> ts \cup {"LOGERR"}, r |-> FragmentText("errlogs")]
    ELSE [tags |-> ts, r |-> None]

(* check_reboot *)
check_reboot(ts, required) ==
    IF required THEN [tags |-> ts \cup {"REBOOT"}, r |-> FragmentText("reboot")]
    ELSE [tags |-> ts, r |-> None]

(* check_load *)
check_load == FragmentText("load")

(* check_disk: the fragment is returned whatever the usage *)
check_disk(ts, full) ==
    [tags |-> IF full THEN ts \cup {"DISK"} ELSE ts, r |-> FragmentText("disk")]

(* check_vnstat *)
check_vnstat == FragmentText("traffic")

(* check_inbox, check_authfail, check_apache_access: None when the module *)
(* cannot be imported, else the text of its daily_report(), which always  *)
(* holds at least the title                                               *)
check_inbox(imported) == IF imported THEN FragmentText("inbox") ELSE None

check_authfailNotImported(imported) == None

check_authfail(imported) == IF imported THEN FragmentText("authfail") ELSE None

check_apache_access(imported) == IF imported THEN FragmentText("access") ELSE None

(* __main__ imports apache_access, authfail and maillog before any        *)
(* command runs: in a running digest the three imports succeed            *)
Imported == TRUE

(* get_daily_report(db, cfg): a report is asked for when its flag in      *)
(* cfg.features is set, and is absent otherwise                           *)
Gated(flag, r) == IF flag THEN r ELSE None

(* The database is queried by a check that is called and whose import     *)
(* succeeds                                                               *)
Queries(flag, imported, name) == IF flag /\ imported THEN {name} ELSE {}

Collect(from, to, ts, r) ==
    /\ kind = "body" /\ dpc = from
    /\ dpc' = to
    /\ tags' = ts
    /\ reports' = IF r = <<"skip">> THEN reports ELSE Append(reports, r)
    /\ UNCHANGED <<kind, now, report, subject, body, features>>
    /\ UNCHANGED lineVars /\ UNCHANGED mailVars

CheckMailbox ==
    \E nonempty \in BOOLEAN :
        Collect("mailbox", "errlogs", check_mailbox(tags, nonempty), <<"skip">>)
        /\ UNCHANGED queried

CheckErrlogs ==
    \E errlogs \in BOOLEAN :
        Collect("errlogs", "reboot", check_errlogs(tags, errlogs).tags,
                check_errlogs(tags, errlogs).r)
        /\ UNCHANGED queried

CheckReboot ==
    \E required \in BOOLEAN :
        Collect("reboot", "load", check_reboot(tags, required).tags,
                check_reboot(tags, required).r)
        /\ UNCHANGED queried

CheckLoad == Collect("load", "disk", tags, check_load) /\ UNCHANGED queried

CheckDisk ==
    \E full \in BOOLEAN :
        Collect("disk", "traffic", check_disk(tags, full).tags, check_disk(tags, full).r)
        /\ UNCHANGED queried

CheckVnstat == Collect("traffic", "inbox", tags, check_vnstat) /\ UNCHANGED queried

CheckInbox ==
    /\ Collect("inbox", "authfail", tags, Gated(features.maillog, check_inbox(Imported)))
    /\ queried' = queried \cup Queries(features.maillog, Imported, "inbox")

CheckAuthfail ==
    /\ Collect("authfail", "access", tags, Gated(features.authfail, check_authfail(Imported)))
    /\ queried' = queried \cup Queries(features.authfail, Imported, "authfail")

CheckApacheAccess ==
    /\ Collect("access", "collected", tags,
               Gated(features.apache_access, check_apache_access(Imported)))
    /\ queried' = queried \cup Queries(features.apache_access, Imported, "access")

InitCollect ==
    /\ kind = "body"
    /\ stdin = <<>> /\ pos = 0 /\ line = NoLine /\ store = <<>> /\ stderr = <<>>
    /\ status = "none"
    /\ contacts = <<>> /\ emails = <<>>
    /\ proc = [p \in {1} |-> IdleProc]
    /\ now = 0 /\ report = NoReport
    /\ tags = {} /\ reports = <<>> /\ subject = <<>> /\ body = <<>> /\ dpc = "mailbox"
    /\ features \in [apache_access : BOOLEAN, authfail : BOOLEAN, maillog : BOOLEAN]
    /\ queried = {}

NextCollect ==
    \/ CheckMailbox
    \/ CheckErrlogs
    \/ CheckReboot
    \/ CheckLoad
    \/ CheckDisk
    \/ CheckVnstat
    \/ CheckInbox
    \/ CheckAuthfail
    \/ CheckApacheAccess
    \/ ComposeBody

SpecCollect == InitCollect /\ [][NextCollect]_vars

(* The flag of each aggregated report *)
FlagOf(name) ==
    IF name = "inbox" THEN features.maillog
    ELSE IF name = "authfail" THEN features.authfail
    ELSE features.apache_access

Aggregated == {"inbox", "authfail", "access"}

(* The body holds the fragment of the report `name` *)
InBody(name) ==
    \E i \in 1..(Len(body) - 1) : SubSeq(body, i, i + 1) = FragmentText(name)

----------------------------------------------------------------------------
(* Two maillog commands at once: two processes, each with its own         *)
(* connection, on one database.  Database.add commits at once, so a       *)
(* SELECT of one process sees every row the other has added before it.    *)

ConcurrentMessages ==
    { Message(Subj("hi", 2), Hdr(<<A1>>), Date(1), Hdr(<<A2>>), NoHdr),
      Message(Subj("hi", 2), Hdr(<<A3>>), Date(1), Hdr(<<A2, A1>>), NoHdr),
      Message(Subj("hi", 2), Hdr(<<A2>>), Date(1), NoHdr, NoHdr) }

InitConcurrent ==
    /\ kind = "mail"
    /\ stdin = <<>> /\ pos = 0 /\ line = NoLine /\ store = <<>> /\ stderr = <<>>
    /\ status = "none"
    /\ contacts = <<>> /\ emails = <<>>
    /\ proc = [p \in {1, 2} |-> IdleProc]
    /\ now = 0 /\ report = <<>>
    /\ DigestIdle

NextConcurrent ==
    \/ \E p \in DOMAIN proc : \E m \in ConcurrentMessages : MailRead(p, m)
    \/ \E p \in DOMAIN proc : GetContactSelect(p)
    \/ \E p \in DOMAIN proc : GetContactAdd(p)
    \/ \E p \in DOMAIN proc : AddEMail(p)

SpecConcurrent == InitConcurrent /\ [][NextConcurrent]_vars

(* Process p has looked its contact up, not found it, and the contact has *)
(* been added by the other process since                                  *)
LostRace(p) ==
    /\ proc[p].pc = "create"
    /\ \E i \in 1..Len(contacts) : contacts[i] = Contact(Target(proc[p]))

(* C13: with two mail processes on one database, under every              *)
(* interleaving of their lookups and inserts no two Contact rows hold     *)
(* the same (realname, address); and the insert of a process whose        *)
(* lookup came before the other's insert of the same pair is rejected:    *)
(* no row is added, its run fails and stores no MailEvent.                *)
ConcurrentContacts ==
    /\ [](\A i, j \in 1..Len(contacts) : contacts[i] = contacts[j] => i = j)
    /\ [][\A p \in DOMAIN proc :
            (LostRace(p) /\ proc'[p] # proc[p]) =>
                /\ contacts' = contacts /\ emails' = emails
                /\ proc'[p].status = "exit1" /\ proc'[p].pc = "idle"
                /\ proc'[p].stderr \in {MailDiagnostic("IntegrityError"),
                                        MailDiagnostic("OperationalError")}]_vars

ConcurrentWitness ==
    /\ kind = "mail" /\ DOMAIN proc = {1, 2}
    /\ proc[2].status = "exit1" /\ proc[2].n = 1
    /\ proc[2].stderr = MailDiagnostic("IntegrityError")
    /\ proc[1].status = "exit0" /\ proc[1].n = 1
    /\ Len(emails) = 1
    /\ Cardinality({i \in 1..Len(contacts) : contacts[i] = Contact(A2)}) = 1

----------------------------------------------------------------------------
(* What one mail run leaves in the database when it fails *)

(* The message has no From, a From without an address, or no Date *)
ParseFails(m) == ~m.from.present \/ m.from.addresses = <<>> \/ ~m.date.present

HasContact(tbl, a) == \E i \in 1..Len(tbl) : tbl[i] = Contact(a)

(* A run that reads such a message fails at once and changes no table *)
ParseFailureStoresNothing ==
    [][\A p \in DOMAIN proc :
          (proc[p].pc = "idle" /\ proc'[p] # proc[p] /\ ParseFails(proc'[p].msg)) =>
              /\ proc'[p].pc = "idle" /\ proc'[p].status = "exit1"
              /\ contacts' = contacts /\ emails' = emails]_vars

(* A run that fails inside insert_entry removes nothing and adds no       *)
(* message; rows once added stay; a message is added only by the step     *)
(* that ends a run successfully                                           *)
InsertFailureKeepsContacts ==
    [][/\ Len(contacts') >= Len(contacts)
       /\ SubSeq(contacts', 1, Len(contacts)) = contacts
       /\ \A p \in DOMAIN proc :
             (proc[p].pc \in {"lookup", "create", "email"} /\ proc'[p].status = "exit1") =>
                 contacts' = contacts /\ emails' = emails
       /\ emails' # emails =>
             \E p \in DOMAIN proc : proc[p].pc = "email" /\ proc'[p].status = "exit0"]_vars

(* The sender's contact is added when every recipient has its row, and    *)
(* the message when the sender and every recipient have theirs            *)
RecipientsBeforeSender ==
    [][\A p \in DOMAIN proc :
          LET q == proc[p]
          IN  /\ (q.pc = "create" /\ contacts' # contacts
                    /\ contacts'[Len(contacts')] = Contact(q.args.sender)
                    /\ \A k \in 1..Len(q.args.recipients) :
                          q.args.recipients[k] # q.args.sender) =>
                     \A k \in 1..Len(q.args.recipients) :
                         HasContact(contacts, q.args.recipients[k])
              /\ (q.pc = "email" /\ emails' # emails) =>
                     /\ HasContact(contacts, q.args.sender)
                     /\ \A k \in 1..Len(q.args.recipients) :
                           HasContact(contacts, q.args.recipients[k])]_vars

(* C14: a mail run is not atomic.  A message without From, with a From    *)
(* holding no address, or without Date fails before anything is stored:   *)
(* no Contact, no MailEvent.  A failure inside insert_entry leaves every  *)
(* Contact added so far in the database and adds no MailEvent.  The       *)
(* recipients' Contacts are added before the sender's and before the      *)
(* MailEvent.                                                             *)
MailNotAtomic ==
    /\ ParseFailureStoresNothing
    /\ InsertFailureKeepsContacts
    /\ RecipientsBeforeSender

(* The first run added the contacts of its two recipients and then        *)
(* failed: they are in the database, its message is not                   *)
MailNotAtomicWitness ==
    /\ kind = "mail" /\ proc[1].n = 1 /\ proc[1].status = "exit1"
    /\ proc[1].pc = "idle" /\ ~ParseFails(proc[1].msg)
    /\ proc[1].msg.to = Hdr(<<A3, A1>>) /\ proc[1].msg.from = Hdr(<<A1>>)
    /\ contacts = <<Contact(A3), Contact(A1)>>
    /\ emails = <<>>

====
